---------------------------- MODULE Spec2Model ----------------------------
(***************************************************************************)
(* Model of the API Gateway Lambda authorizer in                           *)
(* src/lambda/dockerized-jwt-auth-function/app.py.                         *)
(*                                                                         *)
(* Python values are encoded as follows.                                   *)
(*   - An optional value (dict.get, which yields None for an absent key)   *)
(*     is a sequence: <<>> is None, <<v>> is the value v.                  *)
(*   - A string built by an f-string is the sequence of its pieces.        *)
(*   - The authorizationToken string is a sequence of chunks: the chunk    *)
(*     "Bearer " is the scheme label, the chunk "jwt" is the compact       *)
(*     serialization of the token described by event.jwt.                  *)
(*   - The aud claim is a JSON string or a JSON list of strings.           *)
(*   - A dict object lives in the heap and is referred to by its address.  *)
(***************************************************************************)
EXTENDS Integers, Sequences, FiniteSets, TLC

VARIABLES
    environ,          \* os.environ: configuration variable -> <<value>> or <<>>
    pyjwt_expires_at_exp, \* the installed PyJWT rejects exp = now (2.6.0 and later)
    pc,               \* position of the process / of lambda_handler
    heap,             \* the dict objects created at module load, by address
    issuer_url,       \* the module global BASE_ISSUER_URL
    event,            \* the event lambda_handler was called with
    token_header,     \* local token_header
    key,              \* local key
    algorithm,        \* local algorithm
    decoded_token,    \* local decoded_token
    clock,            \* the last value the wall clock returned
    read_times,       \* the clock values this invocation read, in order
    consulted,        \* which parts of the token this invocation has read
    result,           \* address of the returned dict, <<>> while none
    raised,           \* the exception that left lambda_handler, <<>> if none
    prev              \* outcome of the previous call when this call repeats it

vars == <<environ, pyjwt_expires_at_exp, pc, heap, issuer_url, event,
          token_header, key, algorithm, decoded_token, clock, read_times,
          consulted, result, raised, prev>>

None == <<>>
Some(v) == <<v>>

\* Python truthiness (the operand of "not"), by the type of the value:
\* None is false, and so are the empty string, the empty list and 0.
TruthyStr(o) == o # None /\ o[1] # ""
TruthyText(o) == o # None /\ o[1] # <<>>
TruthyInt(o) == o # None /\ o[1] # 0
TruthyJson(o) == o # None /\ o[1].items # <<>> /\ (o[1].list \/ o[1].items # <<"">>)

(***************************************************************************)
(* Bounds of the model.                                                    *)
(***************************************************************************)
\* The wall clock at the first invocation, in seconds.
T0 == 1000
\* How far the clock may advance while the model runs, in seconds.
MaxTicks == 1

ClockValues == T0 .. (T0 + MaxTicks)

(***************************************************************************)
(* Configuration.                                                          *)
(***************************************************************************)
ConfigVars == {"API_REGION", "ACCOUNT_ID", "API_ID",
               "COGNITO_USER_POOL_ID", "COGNITO_APP_CLIENT_ID"}

ConfigValue(v) ==
    CASE v = "API_REGION" -> "eu-west-1"
      [] v = "ACCOUNT_ID" -> "111122223333"
      [] v = "API_ID" -> "a1b2c3"
      [] v = "COGNITO_USER_POOL_ID" -> "eu-west-1_Pool"
      [] v = "COGNITO_APP_CLIENT_ID" -> "client-1"

Environments == { [v \in ConfigVars |-> IF v \in S THEN Some(ConfigValue(v)) ELSE None] :
                     S \in SUBSET ConfigVars }

\* os.environ[name]: the variables a subscript reads, and whether it raises.
EnvMissing(env, names) == \E n \in names : env[n] = None

\* Line 16: the f-string of the Allow resource pattern.
ResourceArn(env) ==
    <<"arn:aws:execute-api:", env["API_REGION"][1], ":", env["ACCOUNT_ID"][1],
      ":", env["API_ID"][1], "*">>

\* The mutation of AUTHORIZED_RESPONSE whose resource pattern lacks the API id.
AUTHORIZED_RESPONSE_any_api(env) ==
    [policyDocument |->
        [Version |-> "2012-10-17",
         Statement |-> << [Action |-> "execute-api:Invoke",
                           Resource |-> << <<"arn:aws:execute-api:", env["API_REGION"][1],
                                             ":", env["ACCOUNT_ID"][1], ":", "*">> >>,
                           Effect |-> "Allow"] >>]]

\* Lines 10-20.
AUTHORIZED_RESPONSE(env) ==
    [policyDocument |->
        [Version |-> "2012-10-17",
         Statement |-> << [Action |-> "execute-api:Invoke",
                           Resource |-> << ResourceArn(env) >>,
                           Effect |-> "Allow"] >>]]

\* Lines 22-32.
UNAUTHORIZED_RESPONSE ==
    [policyDocument |->
        [Version |-> "2012-10-17",
         Statement |-> << [Action |-> "*",
                           Resource |-> << <<"*">> >>,
                           Effect |-> "Deny"] >>]]

\* Line 34.
BASE_ISSUER_URL(env) ==
    <<"https://cognito-idp.", env["API_REGION"][1], ".amazonaws.com/",
      env["COGNITO_USER_POOL_ID"][1]>>

\* Line 37.
VALID_TOKEN_USE == <<"id">>

\* Addresses of the two dicts the module creates at load.
AllowAddr == 1
DenyAddr == 2


(***************************************************************************)
(* Tokens and events.                                                      *)
(***************************************************************************)
FullEnv == [v \in ConfigVars |-> Some(ConfigValue(v))]

\* The key set the issuer publishes: key identifier -> public key.
PublishedKid == "kid-1"
PublishedKey == "rsa-public-key-1"

Kids == {None, Some(PublishedKid), Some("kid-unknown")}
Algs == {None, Some("RS256"), Some("RS384"), Some("HS256"), Some("none"),
         Some("XX999")}

\* What produced the signature segment: the private key (named by its public
\* half), the algorithm, and whether the signed bytes are still the token's.
GoodSig == [signer |-> PublishedKey, alg |-> "RS256", intact |-> TRUE]
WrongKeySig == [signer |-> "rsa-public-key-other", alg |-> "RS256", intact |-> TRUE]
TamperedSig == [signer |-> PublishedKey, alg |-> "RS256", intact |-> FALSE]
Sigs == {GoodSig, WrongKeySig, TamperedSig}

Str(s) == [list |-> FALSE, items |-> <<s>>]
List(l) == [list |-> TRUE, items |-> l]

Exps == {None, Some(T0 - 1), Some(T0), Some(T0 + 3600)}
Auds == {None, Some(Str("client-1")), Some(Str("client-2")),
         Some(List(<<"client-1", "client-2">>)), Some(List(<<"client-2">>))}
Isss == {None, Some(BASE_ISSUER_URL(FullEnv)),
         Some(<<"https://cognito-idp.", "eu-west-1", ".amazonaws.com/", "eu-west-1_Other">>)}
TokenUses == {None, Some("id"), Some("access")}

Payloads == [exp : Exps, aud : Auds, iss : Isss, token_use : TokenUses]

NoPayload == [exp |-> None, aud |-> None, iss |-> None, token_use |-> None]

\* Text that is not a compact serialization with a parseable header.
Garbage == [wellformed |-> FALSE, kid |-> None, alg |-> None, sig |-> TamperedSig,
            payload |-> NoPayload]

Jwts == [wellformed : {TRUE}, kid : Kids, alg : Algs, sig : Sigs, payload : Payloads]
            \cup {Garbage}

\* Events without the authorizationToken key, or whose string holds no token.
BareEvents ==
    { [present |-> FALSE, authorizationToken |-> <<>>, jwt |-> Garbage] }
    \cup { [present |-> TRUE, authorizationToken |-> a, jwt |-> Garbage] :
              a \in { <<>>, <<"Bearer ">>, <<"Bearer ", "Bearer ">> } }

TokenEvents ==
    { [present |-> TRUE, authorizationToken |-> a, jwt |-> j] :
         a \in { <<"jwt">>, <<"Bearer ", "jwt">> }, j \in Jwts }

Events == BareEvents \cup TokenEvents

(***************************************************************************)
(* Exceptions.                                                             *)
(***************************************************************************)
\* The direct base class of each exception class that can occur.
BaseClass(c) ==
    CASE c = "InvalidSignatureError" -> "DecodeError"
      [] c = "DecodeError" -> "InvalidTokenError"
      [] c = "ExpiredSignatureError" -> "InvalidTokenError"
      [] c = "InvalidAudienceError" -> "InvalidTokenError"
      [] c = "MissingRequiredClaimError" -> "InvalidTokenError"
      [] c = "InvalidAlgorithmError" -> "InvalidTokenError"
      [] c = "InvalidTokenError" -> "PyJWTError"
      [] c = "InvalidKeyError" -> "PyJWTError"
      [] c = "PyJWKSetError" -> "PyJWTError"
      [] c = "PyJWKClientConnectionError" -> "PyJWKClientError"
      [] c = "PyJWKClientError" -> "PyJWTError"
      [] c = "PyJWTError" -> "Exception"
      [] c = "KeyError" -> "LookupError"
      [] c = "LookupError" -> "Exception"
      [] c = "TypeError" -> "Exception"
      [] OTHER -> "BaseException"

RECURSIVE IsInstance(_, _)
IsInstance(c, cls) ==
    IF c = cls THEN TRUE
    ELSE IF c = "BaseException" THEN FALSE
    ELSE IsInstance(BaseClass(c), cls)

\* An except clause list catches the exception.
Caught(c, clauses) == \E cls \in clauses : IsInstance(c, cls)


Exc(cls, arg) == [cls |-> cls, arg |-> arg]

(***************************************************************************)
(* The library calls lambda_handler makes (PyJWT), by their contract.      *)
(***************************************************************************)
\* str.replace(old, ""): every occurrence of the chunk is removed.
replace(s, old) == SelectSeq(s, LAMBDA c : c # old)

\* jwt.get_unverified_header: the header of a well-formed token, DecodeError
\* for anything else.  The payload is not parsed.
get_unverified_header(token_string, jwt) ==
    IF token_string = <<"jwt">> /\ jwt.wellformed
    THEN [exc |-> None, header |-> [kid |-> jwt.kid, alg |-> jwt.alg]]
    ELSE [exc |-> Some(Exc("DecodeError", "header")),
          header |-> [kid |-> None, alg |-> None]]

\* PyJWKClient.get_signing_key(kid).key: what a call may yield.  The key set
\* is fetched over the network at each call (line 133 builds a new client).
get_signing_key(kid) ==
    (IF kid = PublishedKid
     THEN { [exc |-> None, key |-> Some(PublishedKey)] }
     ELSE { [exc |-> Some(Exc("PyJWKClientError", "no matching key")), key |-> None] })
    \cup { [exc |-> Some(Exc("PyJWKClientConnectionError", "fetch")), key |-> None],
           [exc |-> Some(Exc("PyJWKSetError", "no usable key")), key |-> None] }

\* The algorithm object the library has for a name.
AlgFamily(alg) ==
    CASE alg \in {"RS256", "RS384"} -> "RSA"
      [] alg = "HS256" -> "HMAC"
      [] alg = "none" -> "none"
      [] OTHER -> "unsupported"

\* The mutation of verify_signature that accepts every signature.
verify_signature_accept_all(sig, k, alg) == TRUE

\* Algorithm.verify: the signature was made over these bytes by the private
\* half of k with this algorithm.
verify_signature(sig, k, alg) ==
    sig.intact /\ sig.signer = k /\ sig.alg = alg

\* The signature step of jwt.decode (the resolved keys are RSA keys):
\* <<>> when it passes, else the exception it raises.
signature_step(jwt, k, algorithms) ==
    LET alg == jwt.alg IN
    IF ~TruthyStr(alg) \/ ~(\E i \in 1..Len(algorithms) : algorithms[i] = alg[1])
    THEN Some(Exc("InvalidAlgorithmError", "alg not allowed"))
    ELSE CASE AlgFamily(alg[1]) = "unsupported" ->
                  Some(Exc("InvalidAlgorithmError", "Algorithm not supported"))
           [] AlgFamily(alg[1]) = "none" ->
                  Some(Exc("InvalidKeyError", "key must be None"))
           [] AlgFamily(alg[1]) = "HMAC" ->
                  Some(Exc("TypeError", "Expected a string value"))
           [] OTHER ->
                  IF verify_signature(jwt.sig, k, alg[1]) THEN None
                  ELSE Some(Exc("InvalidSignatureError", "Signature verification failed"))

\* The library's expiry check: exp < now is expired in every release; exp = now
\* is expired from PyJWT 2.6.0 on (strict) and accepted before.
lib_expired(exp, now, strict) == exp < now \/ (strict /\ exp = now)

\* The claim checks of jwt.decode called with audience=...: exp, then aud.
claims_step(payload, audience, now, strict) ==
    IF payload.exp # None /\ lib_expired(payload.exp[1], now, strict)
    THEN Some(Exc("ExpiredSignatureError", "Signature has expired"))
    ELSE IF ~TruthyJson(payload.aud)
    THEN Some(Exc("MissingRequiredClaimError", "aud"))
    ELSE IF ~(\E i \in 1..Len(payload.aud[1].items) : payload.aud[1].items[i] = audience)
    THEN Some(Exc("InvalidAudienceError", "Invalid audience"))
    ELSE None

\* jwt.decode(token_string, key, [algorithm], audience=audience_client).
jwt_decode(jwt, k, algorithms, audience, now, strict) ==
    LET s == signature_step(jwt, k, algorithms) IN
    IF s # None THEN [exc |-> s, verified |-> FALSE, payload |-> None]
    ELSE LET c == claims_step(jwt.payload, audience, now, strict) IN
         [exc |-> c, verified |-> TRUE,
          payload |-> IF c = None THEN Some(jwt.payload) ELSE None]

(***************************************************************************)
(* _valid_token, lines 58-103.                                             *)
(***************************************************************************)
\* The mutation of _valid_token that leaves out the token_use checks.
valid_token_no_token_use(token, audience, now, issuer) ==
    /\ TruthyInt(token.exp)
    /\ ~(now > token.exp[1])
    /\ TruthyJson(token.aud)
    /\ token.aud[1] = [list |-> FALSE, items |-> <<audience>>]
    /\ TruthyText(token.iss)
    /\ token.iss[1] = issuer

\* Line 71 runs, and reads the clock, only when exp is present and not 0.
valid_token_reads_clock(token) == TruthyInt(token.exp)

_valid_token(token, audience, now, issuer) ==
    /\ TruthyInt(token.exp)                                      \* 66-69
    /\ ~(now > token.exp[1])                                     \* 71-73
    /\ TruthyJson(token.aud)                                     \* 75-78
    /\ token.aud[1] = [list |-> FALSE, items |-> <<audience>>]   \* 80-82
    /\ TruthyText(token.iss)                                     \* 84-87
    /\ token.iss[1] = issuer                                     \* 89-91
    /\ TruthyStr(token.token_use)                                \* 93-96
    /\ \E i \in 1..Len(VALID_TOKEN_USE) :
          VALID_TOKEN_USE[i] = token.token_use[1]                \* 98-100


(***************************************************************************)
(* The process: module load, then one lambda_handler call after another.   *)
(***************************************************************************)
NoHeader == [kid |-> None, alg |-> None]
NoEvent == [present |-> FALSE, authorizationToken |-> <<>>, jwt |-> Garbage]

\* No call is running and one has finished.
Completed == pc = "idle" /\ (result # None \/ raised # None)

Init ==
    /\ environ \in Environments
    /\ pyjwt_expires_at_exp \in BOOLEAN
    /\ pc = "unloaded"
    /\ heap = <<>>
    /\ issuer_url = <<>>
    /\ event = NoEvent
    /\ token_header = NoHeader
    /\ key = None
    /\ algorithm = None
    /\ decoded_token = None
    /\ clock = T0
    /\ read_times = <<>>
    /\ consulted = {}
    /\ result = None
    /\ raised = None
    /\ prev = None

\* return <the dict at addr>
Return(addr) ==
    /\ pc' = "idle"
    /\ result' = Some(addr)
    /\ raised' = None

\* An exception no except clause caught leaves lambda_handler.
Raise(exc) ==
    /\ pc' = "idle"
    /\ result' = None
    /\ raised' = Some(exc)

Goto(label) ==
    /\ pc' = label
    /\ UNCHANGED <<result, raised>>

\* Lines 10-37: the module body.  The subscripts os.environ[...] of lines 16
\* and 34 raise KeyError, and the import fails, when a variable is not set.
ModuleLoad ==
    /\ pc = "unloaded"
    /\ IF EnvMissing(environ, {"API_REGION", "ACCOUNT_ID", "API_ID",
                               "COGNITO_USER_POOL_ID"})
       THEN /\ pc' = "import_failed"
            /\ UNCHANGED <<heap, issuer_url>>
       ELSE /\ pc' = "idle"
            /\ heap' = <<AUTHORIZED_RESPONSE(environ), UNAUTHORIZED_RESPONSE>>
            /\ issuer_url' = BASE_ISSUER_URL(environ)
    /\ UNCHANGED <<environ, pyjwt_expires_at_exp, event, token_header, key,
                   algorithm, decoded_token, clock, read_times, consulted,
                   result, raised, prev>>

\* Lines 106-130: the call, the presence checks and the header extraction.
lambda_handler(ev) ==
    /\ pc = "idle"
    /\ event' = ev
    /\ key' = None
    /\ algorithm' = None
    /\ decoded_token' = None
    /\ read_times' = <<>>
    /\ consulted' = {}
    /\ LET auth_token == IF ev.present THEN Some(ev.authorizationToken) ELSE None
           token_string == replace(auth_token[1], "Bearer ")
           h == get_unverified_header(token_string, ev.jwt)
       IN  IF ~TruthyText(auth_token)                              \* 114-117
           THEN Return(DenyAddr) /\ token_header' = NoHeader
           ELSE IF token_string = <<>>                             \* 119-122
           THEN Return(DenyAddr) /\ token_header' = NoHeader
           ELSE IF h.exc # None                                    \* 125-130
           THEN /\ token_header' = NoHeader
                /\ IF Caught(h.exc[1].cls, {"DecodeError"})
                   THEN Return(DenyAddr)
                   ELSE Raise(h.exc[1])
           ELSE /\ token_header' = h.header
                /\ pc' = "resolve_key"
                /\ result' = None
                /\ raised' = None
    /\ UNCHANGED <<environ, pyjwt_expires_at_exp, heap, issuer_url, clock>>

\* The first call after the module has loaded, with any event.
Invoke ==
    /\ pc = "idle"
    /\ ~Completed
    /\ \E ev \in Events : lambda_handler(ev)
    /\ prev' = None

\* A later call.  A call reads nothing an earlier call wrote (its locals are
\* set anew, the module globals are only read), so a behaviour follows one
\* event through its calls and the events differ between behaviours.
InvokeAgain ==
    /\ Completed
    /\ lambda_handler(event)
    /\ prev' = Some([result |-> result, raised |-> raised, key |-> key,
                     read_times |-> read_times])

\* Lines 132-143: token_header["kid"], then the key for it.
ResolveKey ==
    /\ pc = "resolve_key"
    /\ IF token_header.kid = None                                  \* 137
       THEN /\ Raise(Exc("KeyError", "kid"))
            /\ UNCHANGED <<key, consulted>>
       ELSE /\ consulted' = consulted \cup {"header.kid"}
            /\ \E r \in get_signing_key(token_header.kid[1]) :
                 IF r.exc = None
                 THEN key' = r.key /\ Goto("check_alg")
                 ELSE /\ key' = None
                      /\ IF Caught(r.exc[1].cls, {"PyJWKSetError", "PyJWKClientError"})
                         THEN Return(DenyAddr)
                         ELSE Raise(r.exc[1])
    /\ UNCHANGED <<environ, pyjwt_expires_at_exp, heap, issuer_url, event,
                   token_header, algorithm, decoded_token, clock, read_times, prev>>

\* Lines 145-148.
CheckAlgorithm ==
    /\ pc = "check_alg"
    /\ algorithm' = token_header.alg
    /\ consulted' = consulted \cup {"header.alg"}
    /\ IF ~TruthyStr(token_header.alg)
       THEN Return(DenyAddr)
       ELSE Goto("decode")
    /\ UNCHANGED <<environ, pyjwt_expires_at_exp, heap, issuer_url, event,
                   token_header, key, decoded_token, clock, read_times, prev>>

\* Lines 150-167.  The library reads the clock (now) once the signature has
\* verified, to check the claims.
Decode(now) ==
    /\ pc = "decode"
    /\ now >= clock
    /\ IF environ["COGNITO_APP_CLIENT_ID"] = None                  \* 150
       THEN /\ now = clock
            /\ Raise(Exc("KeyError", "COGNITO_APP_CLIENT_ID"))
            /\ UNCHANGED <<decoded_token, clock, read_times, consulted>>
       ELSE LET audience_client == environ["COGNITO_APP_CLIENT_ID"][1]
                d == jwt_decode(event.jwt, key[1], <<algorithm[1]>>,
                                audience_client, now, pyjwt_expires_at_exp)
            IN  /\ IF d.verified
                   THEN /\ clock' = now
                        /\ read_times' = Append(read_times, now)
                        /\ consulted' = consulted \cup {"claims:decode"}
                   ELSE /\ now = clock
                        /\ UNCHANGED <<clock, read_times, consulted>>
                /\ decoded_token' = d.payload
                /\ IF d.exc = None
                   THEN Goto("validate")
                   ELSE IF Caught(d.exc[1].cls, {"DecodeError", "MissingRequiredClaimError",
                                                 "ExpiredSignatureError"})
                   THEN Return(DenyAddr)
                   ELSE Raise(d.exc[1])
    /\ UNCHANGED <<environ, pyjwt_expires_at_exp, heap, issuer_url, event,
                   token_header, key, algorithm, prev>>

\* Lines 169-172.
Validate(now) ==
    /\ pc = "validate"
    /\ now >= clock
    /\ consulted' = consulted \cup {"claims:_valid_token"}
    /\ IF valid_token_reads_clock(decoded_token[1])
       THEN clock' = now /\ read_times' = Append(read_times, now)
       ELSE now = clock /\ UNCHANGED <<clock, read_times>>
    /\ IF ~_valid_token(decoded_token[1], environ["COGNITO_APP_CLIENT_ID"][1],
                        now, issuer_url)
       THEN Return(DenyAddr)
       ELSE Return(AllowAddr)
    /\ UNCHANGED <<environ, pyjwt_expires_at_exp, heap, issuer_url, event,
                   token_header, key, algorithm, decoded_token, prev>>

Next ==
    \/ ModuleLoad
    \/ Invoke
    \/ InvokeAgain
    \/ ResolveKey
    \/ CheckAlgorithm
    \/ \E now \in ClockValues : Decode(now)
    \/ \E now \in ClockValues : Validate(now)

Spec == Init /\ [][Next]_vars


(***************************************************************************)
(* What the claims speak of.                                               *)
(***************************************************************************)
Jwt == event.jwt
TokenString == replace(event.authorizationToken, "Bearer ")
Claims == Jwt.payload
Decision == heap[result[1]]
Returned == Completed /\ result # None
Allowed == Returned /\ Decision.policyDocument.Statement[1].Effect = "Allow"
Denied == Returned /\ result = Some(DenyAddr) /\ Decision = UNAUTHORIZED_RESPONSE
ClientIdSet == environ["COGNITO_APP_CLIENT_ID"] # None
ClientId == environ["COGNITO_APP_CLIENT_ID"][1]

\* A token is present and its header parses.
Structured == event.present /\ TokenString = <<"jwt">> /\ Jwt.wellformed

\* This call resolved the key published for the kid the header declares.
KeyResolved == Jwt.kid = Some(PublishedKid) /\ key = Some(PublishedKey)

\* The signature is one the private half of the resolved key made over the
\* token's bytes with the algorithm the header declares.
GenuineSignature ==
    /\ key # None
    /\ Jwt.alg # None
    /\ Jwt.sig.intact
    /\ Jwt.sig.signer = key[1]
    /\ Jwt.sig.alg = Jwt.alg[1]

\* aud, iss and token_use are the expected ones.
AudOk == ClientIdSet /\ Claims.aud = Some([list |-> FALSE, items |-> <<ClientId>>])
IssOk == Claims.iss = Some(<<"https://cognito-idp.", environ["API_REGION"][1],
                             ".amazonaws.com/", environ["COGNITO_USER_POOL_ID"][1]>>)
UseOk == Claims.token_use = Some("id")

\* Every clock value this call read satisfies P.
AllReads(P(_)) == read_times # <<>> /\ \A i \in 1..Len(read_times) : P(read_times[i])

(* C1: lambda_handler never raises to its caller: every call that has ended
   has returned one of the two decisions, and no exception left it. *)
C1_NeverRaises ==
    Completed => raised = None /\ (Allowed \/ Denied)

(* C2: a call returns Allow only if a non-empty token was present, its header
   parsed, the key published for its kid was resolved, the header declared an
   algorithm, the signature verifies under that key and algorithm, and the
   claims satisfy exp >= now (the time _valid_token read), aud = client id,
   iss = issuer URL and token_use = id; every other call that returns,
   returns Deny. *)
C2_AllowOnlyIfAllChecksPass ==
    Returned =>
        IF Allowed
        THEN /\ result = Some(AllowAddr)
             /\ Structured
             /\ KeyResolved
             /\ GenuineSignature
             /\ Claims.exp # None
             /\ Len(read_times) = 2
             /\ Claims.exp[1] >= read_times[2]
             /\ AudOk
             /\ IssOk
             /\ UseOk
        ELSE Denied

C2_Witness == Allowed /\ UseOk /\ Claims.exp = Some(T0) /\ read_times = <<T0, T0>>

\* The token of C3 in a call that resolved its key.
C3_Token ==
    /\ Structured
    /\ KeyResolved
    /\ Jwt.alg = Some("RS256")
    /\ Jwt.sig = GoodSig
    /\ Claims.exp = Some(T0 + 3600)
    /\ AudOk
    /\ IssOk
    /\ UseOk

(* C3: a correctly signed token whose kid resolves, with aud = client id,
   iss = issuer URL, token_use = id and exp one hour ahead, yields Allow, and
   the Allow policy grants execute-api:Invoke on the single resource
   arn:aws:execute-api:{region}:{account}:{apiId}*. *)
C3_ValidTokenAllowed ==
    Completed /\ C3_Token =>
        /\ result = Some(AllowAddr)
        /\ raised = None
        /\ Decision.policyDocument.Statement =
              << [Action |-> "execute-api:Invoke",
                  Resource |-> << <<"arn:aws:execute-api:", environ["API_REGION"][1], ":",
                                    environ["ACCOUNT_ID"][1], ":", environ["API_ID"][1],
                                    "*">> >>,
                  Effect |-> "Allow"] >>

C3_Witness == Completed /\ C3_Token /\ read_times = <<T0, T0>> /\ Allowed

\* A correctly signed token with valid aud, iss and token_use, key resolved.
C4_Token ==
    /\ Structured
    /\ KeyResolved
    /\ Jwt.alg = Some("RS256")
    /\ Jwt.sig = GoodSig
    /\ Claims.exp # None
    /\ AudOk
    /\ IssOk
    /\ UseOk

(* C4: for a correctly signed token with valid other claims, exp earlier than
   the current time gives Deny and exp equal to the current time gives Allow,
   the current time being what the call's expiry checks read. *)
C4_ExpiryBoundaryInclusive ==
    Completed /\ C4_Token =>
        /\ (AllReads(LAMBDA t : Claims.exp[1] < t) => Denied)
        /\ (AllReads(LAMBDA t : Claims.exp[1] = t) => Allowed)

(* C5: a correctly signed, unexpired token whose aud is not exactly the
   configured client id (another string, a list, or absent) gets Deny. *)
C5_AudienceMismatchDenied ==
    (/\ Completed
     /\ Structured
     /\ KeyResolved
     /\ Jwt.alg = Some("RS256")
     /\ Jwt.sig = GoodSig
     /\ Claims.exp = Some(T0 + 3600)
     /\ ClientIdSet
     /\ ~AudOk)
    => Denied

(* C6: a structurally valid token whose signature does not verify under the
   resolved key and the algorithm its header declares (wrong key, tampered
   payload, wrong algorithm) gets Deny. *)
C6_InvalidSignatureDenied ==
    (/\ Completed
     /\ Structured
     /\ KeyResolved
     /\ Jwt.alg # None
     /\ ClientIdSet
     /\ ~GenuineSignature)
    => Denied

(* C7: an event whose authorizationToken is missing, empty, empty once the
   "Bearer " label is removed, or malformed (header not parseable, or
   parseable without a key identifier) gets Deny. *)
C7_MalformedDenied ==
    (/\ Completed
     /\ \/ ~event.present
        \/ event.authorizationToken = <<>>
        \/ TokenString = <<>>
        \/ ~Jwt.wellformed
        \/ Jwt.kid = None)
    => Denied

(* C8: every required configuration value is read at module load, so no call
   of lambda_handler fails because a configuration value is missing. *)
C8_NoCallFailsOnConfiguration ==
    raised # None => ~(raised[1].cls = "KeyError" /\ raised[1].arg \in ConfigVars)

(* C9: a second call with the same valid token at the same time yields the
   same decision as the first, and its decision is a fresh value: not the
   object the first call returned. *)
C9_SameDecisionFreshValue ==
    (/\ Completed
     /\ prev # None
     /\ C3_Token
     /\ prev[1].key = key
     /\ prev[1].read_times = read_times
     /\ prev[1].result # None
     /\ result # None)
    => /\ heap[prev[1].result[1]] = Decision
       /\ prev[1].result[1] # result[1]

(* C10: _valid_token reads the claims only after the signature has verified
   under the key resolved for the header's kid; until then only the header's
   kid and alg have been read, and the algorithm handed to the verification
   is the header's. *)
C10_ClaimsReadAfterVerification ==
    /\ pc \in {"resolve_key", "check_alg", "decode"} =>
          /\ consulted \subseteq {"header.kid", "header.alg"}
          /\ decoded_token = None
    /\ (pc = "validate" \/ "claims:_valid_token" \in consulted) =>
          /\ KeyResolved
          /\ GenuineSignature
          /\ algorithm = Jwt.alg
          /\ decoded_token = Some(Claims)

C10_Witness ==
    /\ Completed
    /\ "claims:_valid_token" \in consulted
    /\ GenuineSignature
    /\ Denied

=============================================================================
